---- MODULE Spec2Model ----
(***************************************************************************)
(* The SFCC-to-Shopify image pipeline: catalog extraction, image           *)
(* resolution, view classification (extractImageView), inventory export,   *)
(* image copy and the Shopify manifest.  Strings are sequences of one-     *)
(* character strings, so that prefix/suffix stripping, lower-casing,       *)
(* splitting and joining are computed the way the JavaScript computes      *)
(* them.  Paths follow the POSIX rules of Node's path module (path.sep =   *)
(* "/").                                                                   *)
(***************************************************************************)
EXTENDS Integers, Sequences, FiniteSets, TLC

VARIABLES
    call,                   \* a function under check alone: its arguments and result
    disk,                   \* the directories the run reads: catalogs, allow-lists, image store
    pc,                     \* the stage the script is at
    stylesMap,
    activeCatalogBase,
    xmlData,
    productImagesAvailable,
    catalogIndex,           \* position of the forEach over the catalog files
    productIndex,           \* position of the loops of processProductViews
    imageIndex,
    views,                  \* the Map processProductViews is filling
    probeLog,               \* the outcome of each metadata probe, per product and image
    inventoryFiles,         \* script-image-list-output: file name -> rows
    outputFiles,            \* sfcc-images-output: file name -> the image copied into it
    log,                    \* the lines written through console.warn and console.error
    styleMap,               \* the Map generateMatrixifyCSV builds from the style map CSV
    matrixifyFiles          \* matrixify: file name -> manifest rows

(***************************************************************************)
(* String primitives (String.prototype)                                      *)
(***************************************************************************)
UpperChars == <<"A","B","C","D","E","F","G","H","I","J","K","L","M","N","O","P","Q","R","S","T","U","V","W","X","Y","Z">>

LowerChars == <<"a","b","c","d","e","f","g","h","i","j","k","l","m","n","o","p","q","r","s","t","u","v","w","x","y","z">>

DigitChars == <<"0","1","2","3","4","5","6","7","8","9">>

WhitespaceChars == {" "}

upperCharSet == { UpperChars[k] : k \in 1..Len(UpperChars) }

digitCharSet == { DigitChars[k] : k \in 1..Len(DigitChars) }

lowerOfUpper ==
    [c \in upperCharSet |-> LowerChars[CHOOSE k \in 1..Len(UpperChars) : UpperChars[k] = c]]

toLowerCaseChar(c) == IF c \in upperCharSet THEN lowerOfUpper[c] ELSE c

toLowerCase(s) == [i \in 1..Len(s) |-> toLowerCaseChar(s[i])]

startsWith(s, p) == Len(p) <= Len(s) /\ SubSeq(s, 1, Len(p)) = p

endsWith(s, p) == Len(p) <= Len(s) /\ SubSeq(s, Len(s) - Len(p) + 1, Len(s)) = p

\* s.slice(n)
sliceFrom(s, n) == SubSeq(s, n + 1, Len(s))

\* s.slice(0, -n)
sliceOffEnd(s, n) == SubSeq(s, 1, Len(s) - n)

\* s.replace(/^_/, '')
stripLeadingUnderscore(s) == IF s # <<>> /\ s[1] = "_" THEN Tail(s) ELSE s

RECURSIVE stripTrailingUnderscores(_)
\* s.replace(/_+$/, '')
stripTrailingUnderscores(s) ==
    IF s # <<>> /\ s[Len(s)] = "_"
    THEN stripTrailingUnderscores(SubSeq(s, 1, Len(s) - 1))
    ELSE s

\* s.trim() === ''
isBlank(s) == \A i \in 1..Len(s) : s[i] \in WhitespaceChars

\* s.replace(/-/g, '_')
replaceHyphens(s) == [i \in 1..Len(s) |-> IF s[i] = "-" THEN "_" ELSE s[i]]

RECURSIVE numberToString(_)
\* `${n}` for a non-negative integer
numberToString(n) ==
    IF n < Len(DigitChars)
    THEN <<DigitChars[n + 1]>>
    ELSE numberToString(n \div Len(DigitChars)) \o <<DigitChars[(n % Len(DigitChars)) + 1]>>

\* s.lastIndexOf(c) + 1 (0 when c does not occur)
lastIndexOf(s, c) ==
    CHOOSE i \in 0..Len(s) :
        /\ (i = 0 \/ s[i] = c)
        /\ \A j \in (i + 1)..Len(s) : s[j] # c

(***************************************************************************)
(* Node's path module, POSIX flavour                                        *)
(***************************************************************************)
pathSep == "/"

lastSegment(p) == sliceFrom(p, lastIndexOf(p, pathSep))

\* path.extname
extname(p) ==
    LET b == lastSegment(p)
        i == lastIndexOf(b, ".")
    IN  IF i <= 1 \/ b = <<".",".">> THEN <<>> ELSE SubSeq(b, i, Len(b))

\* path.basename(p, ext)
basename(p, ext) ==
    LET b == lastSegment(p)
    IN  IF ext # <<>> /\ endsWith(b, ext) /\ b # ext THEN sliceOffEnd(b, Len(ext)) ELSE b

\* path.dirname
dirname(p) ==
    LET i == lastIndexOf(p, pathSep)
    IN  IF i = 0 THEN <<".">> ELSE IF i = 1 THEN <<"/">> ELSE SubSeq(p, 1, i - 1)

(***************************************************************************)
(* View classification                                                      *)
(***************************************************************************)
\* own properties of the viewLabelMap object literal
viewLabelMap ==
    { <<<<"2">>, <<"o","u","t","s","o","l","e">>>>, <<<<"3">>, <<"f","r","o","n","t">>>>, <<<<"4">>, <<"b","a","c","k">>>>,
      <<<<"5">>, <<"i","n","s","t","e","p","_","p","r","o","f","i","l","e">>>>, <<<<"6">>, <<"b","i","r","d","s","e","y","e">>>>,
      <<<<"8">>, <<"p","r","o","f","i","l","e">>>>, <<<<"9">>, <<"l","i","f","e","s","t","y","l","e">>>> }

\* viewLabelMap is a plain object literal: a lookup by key also finds what
\* it inherits from Object.prototype.  These are the inherited functions.
objectPrototypeFunctions ==
    { <<"c","o","n","s","t","r","u","c","t","o","r">>, <<"t","o","S","t","r","i","n","g">>, <<"v","a","l","u","e","O","f">>, <<"h","a","s","O","w","n","P","r","o","p","e","r","t","y">>, <<"i","s","P","r","o","t","o","t","y","p","e","O","f">>,
      <<"p","r","o","p","e","r","t","y","I","s","E","n","u","m","e","r","a","b","l","e">>, <<"t","o","L","o","c","a","l","e","S","t","r","i","n","g">>,
      <<"_","_","d","e","f","i","n","e","G","e","t","t","e","r","_","_">>, <<"_","_","d","e","f","i","n","e","S","e","t","t","e","r","_","_">>, <<"_","_","l","o","o","k","u","p","G","e","t","t","e","r","_","_">>, <<"_","_","l","o","o","k","u","p","S","e","t","t","e","r","_","_">> }

\* `${f}` for a native function found under property name
nativeFunctionText(name) ==
    <<"f","u","n","c","t","i","o","n"," ">> \o (IF name = <<"c","o","n","s","t","r","u","c","t","o","r">> THEN <<"O","b","j","e","c","t">> ELSE name) \o <<"(",")"," ","{"," ","[","n","a","t","i","v","e"," ","c","o","d","e","]"," ","}">>

\* viewLabelMap[view], as the text it has once interpolated in the key;
\* truthy tells whether `if (viewLabelMap[view])` takes the branch
viewLabelLookup(view) ==
    IF \E e \in viewLabelMap : e[1] = view
    THEN [truthy |-> TRUE, text |-> (CHOOSE e \in viewLabelMap : e[1] = view)[2]]
    ELSE IF view \in objectPrototypeFunctions
    THEN [truthy |-> TRUE, text |-> nativeFunctionText(view)]
    ELSE IF view = <<"_","_","p","r","o","t","o","_","_">>
    THEN [truthy |-> TRUE, text |-> <<"[","o","b","j","e","c","t"," ","O","b","j","e","c","t","]">>]
    ELSE [truthy |-> FALSE, text |-> <<>>]

ignoredFolders == { <<"s","p","i","n","s">>, <<"s","p","i","n">>, <<"s","w","a","t","c","h">> }

sizeLabels == << <<"e","x","t","r","a","l","a","r","g","e">>, <<"l","a","r","g","e">>, <<"r","e","g","u","l","a","r">>, <<"t","h","u","m","b","n","a","i","l">> >>

\* path.dirname(imagePath).split(path.sep).pop().toLowerCase()
folderName(imagePath) == toLowerCase(lastSegment(dirname(imagePath)))

baseFolderWhiteOnly(imagePath) ==
    IF folderName(imagePath) = <<"w","h","i","t","e">> THEN <<"w","h","i","t","e">> ELSE <<"d","e","f","a","u","l","t">>

baseFolder(imagePath) ==
    IF folderName(imagePath) \in ignoredFolders
    THEN <<"d","e","f","a","u","l","t">>
    ELSE IF folderName(imagePath) \in { <<"g","r","a","y">>, <<"w","h","i","t","e">> }
    THEN folderName(imagePath)
    ELSE <<"d","e","f","a","u","l","t">>

stripSizeLabelKeepUnderscores(view) ==
    LET hits == { k \in 1..Len(sizeLabels) : endsWith(view, sizeLabels[k]) }
    IN  IF hits = {} THEN view
        ELSE sliceOffEnd(view, Len(sizeLabels[CHOOSE k \in hits : \A m \in hits : k <= m]))

\* the loop over sizeLabels: the first label that is a suffix is removed,
\* with the underscores before it, and the loop breaks
stripSizeLabel(view) ==
    LET hits == { k \in 1..Len(sizeLabels) : endsWith(view, sizeLabels[k]) }
    IN  IF hits = {} THEN view
        ELSE stripTrailingUnderscores(
                 sliceOffEnd(view, Len(sizeLabels[CHOOSE k \in hits : \A m \in hits : k <= m])))

\* the view token before the label lookup
viewToken(productId, imagePath) ==
    LET fileName == basename(imagePath, extname(imagePath))
        base == IF startsWith(fileName, productId)
                THEN sliceFrom(fileName, Len(productId))
                ELSE fileName
        view == stripSizeLabel(toLowerCase(stripLeadingUnderscore(base)))
    IN  IF view = <<>> \/ isBlank(view) THEN <<"m","a","i","n">> ELSE view

\* the view after `if (viewLabelMap[view]) view = viewLabelMap[view]`
semanticView(productId, imagePath) ==
    LET view == viewToken(productId, imagePath)
    IN  IF viewLabelLookup(view).truthy THEN viewLabelLookup(view).text ELSE view

\* metadata is the outcome of sharp(...).metadata(): ok = FALSE when it throws
imageDimensions(metadata) ==
    IF metadata.ok
    THEN numberToString(metadata.width) \o <<"x">> \o numberToString(metadata.height)
    ELSE <<>>

extractImageView(productId, imagePath, metadata) ==
    LET view == semanticView(productId, imagePath)
        dims == imageDimensions(metadata)
        viewName == IF dims # <<>>
                    THEN baseFolder(imagePath) \o <<"-">> \o view \o <<"-">> \o dims
                    ELSE baseFolder(imagePath) \o <<"-">> \o view
    IN  replaceHyphens(viewName)

(***************************************************************************)
(* Inputs of the classifier checks                                          *)
(***************************************************************************)
NoMetadata == [ok |-> FALSE, width |-> 0, height |-> 0]

ProbeOutcomes ==
    { NoMetadata,
      [ok |-> TRUE, width |-> 800, height |-> 600],
      [ok |-> TRUE, width |-> 64, height |-> 64] }

ClassifyProductIds == { <<"A","B","C","1","2","3">>, <<"A","B","C">> }

\* a folder part of a path, with the name of the immediate parent folder
ClassifyFolders ==
    { [text |-> <<>>, parent |-> <<>>],
      [text |-> <<"g","r","a","y","/">>, parent |-> <<"g","r","a","y">>],
      [text |-> <<"w","h","i","t","e","/">>, parent |-> <<"w","h","i","t","e">>],
      [text |-> <<"G","r","a","y","/">>, parent |-> <<"G","r","a","y">>],
      [text |-> <<"d","e","f","a","u","l","t","/">>, parent |-> <<"d","e","f","a","u","l","t">>],
      [text |-> <<"s","p","i","n","s","/">>, parent |-> <<"s","p","i","n","s">>],
      [text |-> <<"s","p","i","n","/">>, parent |-> <<"s","p","i","n">>],
      [text |-> <<"s","w","a","t","c","h","/">>, parent |-> <<"s","w","a","t","c","h">>],
      [text |-> <<"g","r","a","y","s","c","a","l","e","/">>, parent |-> <<"g","r","a","y","s","c","a","l","e">>],
      [text |-> <<"g","r","a","y","/","a","l","t","/">>, parent |-> <<"a","l","t">>],
      [text |-> <<"a","l","t","/","w","h","i","t","e","/">>, parent |-> <<"w","h","i","t","e">>] }

ClassifyPrefixes == { <<>>, <<"A","B","C","1","2","3">>, <<"A","B","C","1","2","3","_">>, <<"X","Y","Z","_">> }

ClassifyTokens ==
    { <<>>, <<"1">>, <<"2">>, <<"3">>, <<"4">>, <<"5">>, <<"6">>, <<"7">>, <<"8">>, <<"9">>, <<"1","0">>, <<"0","9">>,
      <<"i","n","s","t","e","p","p","r","o","f","i","l","e">>, <<"S","i","d","e">>, <<"t","o","p","-","v","i","e","w">>, <<" ">>, <<"c","o","n","s","t","r","u","c","t","o","r">>, <<"_","_","p","r","o","t","o","_","_">> }

ClassifySuffixes == { <<>>, <<"_","l","a","r","g","e">>, <<"_","r","e","g","u","l","a","r">>, <<"_","t","h","u","m","b","n","a","i","l">>, <<"_","e","x","t","r","a","l","a","r","g","e">>, <<"_","_","l","a","r","g","e">> }

ClassifyExtensions == { <<".","j","p","g">>, <<".","P","N","G">> }

\* how an input path is put together
ClassifyParts ==
    [folder : ClassifyFolders, prefix : ClassifyPrefixes, token : ClassifyTokens,
     suffix : ClassifySuffixes, ext : ClassifyExtensions]

pathOfParts(parts) ==
    parts.folder.text \o parts.prefix \o parts.token \o parts.suffix \o parts.ext

pipelineVars ==
    <<disk, pc, stylesMap, activeCatalogBase, xmlData, productImagesAvailable,
      catalogIndex, productIndex, imageIndex, views, probeLog, inventoryFiles,
      outputFiles, log, styleMap, matrixifyFiles>>

\* the script is not running while one function is checked alone
PipelineIdle ==
    /\ disk = <<>>
    /\ pc = "idle"
    /\ stylesMap = <<>>
    /\ activeCatalogBase = <<>>
    /\ xmlData = <<>>
    /\ productImagesAvailable = <<>>
    /\ catalogIndex = 0
    /\ productIndex = 0
    /\ imageIndex = 0
    /\ views = <<>>
    /\ probeLog = <<>>
    /\ inventoryFiles = <<>>
    /\ outputFiles = <<>>
    /\ log = <<>>
    /\ styleMap = <<>>
    /\ matrixifyFiles = <<>>

ClassifyInit ==
    /\ PipelineIdle
    /\ \E productId \in ClassifyProductIds, parts \in ClassifyParts, metadata \in ProbeOutcomes :
          call = [state |-> "called", productId |-> productId, parts |-> parts,
                  imagePath |-> pathOfParts(parts), metadata |-> metadata, result |-> <<>>]

\* await extractImageView(productId, imagePath) returns
ClassifyReturn ==
    /\ call.state = "called"
    /\ call' = [call EXCEPT !.state = "returned",
                            !.result = extractImageView(call.productId, call.imagePath, call.metadata)]
    /\ UNCHANGED pipelineVars

ClassifyNext == ClassifyReturn

vars ==
    <<call, disk, pc, stylesMap, activeCatalogBase, xmlData, productImagesAvailable,
      catalogIndex, productIndex, imageIndex, views, probeLog, inventoryFiles,
      outputFiles, log, styleMap, matrixifyFiles>>

SpecClassify == ClassifyInit /\ [][ClassifyNext]_vars

(***************************************************************************)
(* Inventory rows: partition and sort of a product's views (exportViewCSV)  *)
(***************************************************************************)
\* the collation order String.prototype.localeCompare sorts by (ICU root
\* collation): space, punctuation, symbols, digits, letters; a letter and
\* its capital differ only at the last comparison level
collationOrder == <<" ","_","-",",",";",":","!","?",".","(",")","[","]","{","}","@","*","/","&","#","%","^","+","<","=",">","|","~","$","0","1","2","3","4","5","6","7","8","9","a","b","c","d","e","f","g","h","i","j","k","l","m","n","o","p","q","r","s","t","u","v","w","x","y","z">>

collationRankOf ==
    [c \in { collationOrder[k] : k \in 1..Len(collationOrder) } |->
        CHOOSE k \in 1..Len(collationOrder) : collationOrder[k] = c]

collationRank(c) == collationRankOf[toLowerCaseChar(c)]

\* a.localeCompare(b)
localeCompare(a, b) ==
    LET n == IF Len(a) < Len(b) THEN Len(a) ELSE Len(b)
        primary == { i \in 1..n : collationRank(a[i]) # collationRank(b[i]) }
        cased == { i \in 1..n : a[i] # b[i] }
        first(S) == CHOOSE i \in S : \A j \in S : i <= j
    IN  IF primary # {}
        THEN (IF collationRank(a[first(primary)]) < collationRank(b[first(primary)]) THEN -1 ELSE 1)
        ELSE IF Len(a) # Len(b)
        THEN (IF Len(a) < Len(b) THEN -1 ELSE 1)
        ELSE IF cased # {}
        THEN (IF a[first(cased)] = toLowerCaseChar(a[first(cased)]) THEN -1 ELSE 1)
        ELSE 0

defaultPreferredOrder ==
    << <<"m","a","i","n">>, <<"l","i","f","e","s","t","y","l","e">>, <<"o","u","t","s","o","l","e">>, <<"p","r","o","f","i","l","e">>, <<"f","r","o","n","t">>, <<"b","a","c","k">>,
       <<"i","n","s","t","e","p","_","p","r","o","f","i","l","e">>, <<"b","i","r","d","s","e","y","e">> >>

grayPreferredOrder ==
    << <<"p","r","o","f","i","l","e">>, <<"l","i","f","e","s","t","y","l","e">>, <<"m","a","i","n">>, <<"i","n","s","t","e","p","_","p","r","o","f","i","l","e">>, <<"d","o","u","b","l","e","h","e","e","l">>,
       <<"d","o","u","b","l","e","q","u","a","r","t","e","r">>, <<"o","u","t","s","o","l","e">> >>

bucketPrefixes == << <<"g","r","a","y","_">>, <<"d","e","f","a","u","l","t","_">>, <<"w","h","i","t","e","_">> >>

\* view.replace(/^(gray_|default_|white_)/, '')
stripBucketPrefix(view) ==
    LET hits == { k \in 1..Len(bucketPrefixes) : startsWith(view, bucketPrefixes[k]) }
    IN  IF hits = {} THEN view
        ELSE sliceFrom(view, Len(bucketPrefixes[CHOOSE k \in hits : \A m \in hits : k <= m]))

isDigits(s) == s # <<>> /\ \A i \in 1..Len(s) : s[i] \in digitCharSet

\* s matches /^_\d+x\d+$/
isDimensionSuffix(s) ==
    /\ Len(s) >= 4
    /\ s[1] = "_"
    /\ \E x \in 3..(Len(s) - 1) :
          /\ s[x] = "x"
          /\ isDigits(SubSeq(s, 2, x - 1))
          /\ isDigits(SubSeq(s, x + 1, Len(s)))

\* view.replace(/_\d+x\d+$/, '')
stripDimensionSuffix(view) ==
    LET hits == { k \in 1..Len(view) : view[k] = "_" /\ isDimensionSuffix(SubSeq(view, k, Len(view))) }
    IN  IF hits = {} THEN view
        ELSE SubSeq(view, 1, (CHOOSE k \in hits : \A m \in hits : k <= m) - 1)

\* the token the comparator looks up in the preference table
sortToken(view) == stripDimensionSuffix(stripBucketPrefix(view))

\* preferredOrder.indexOf(token)
indexOf(preferredOrder, token) ==
    IF \E k \in 1..Len(preferredOrder) : preferredOrder[k] = token
    THEN (CHOOSE k \in 1..Len(preferredOrder) : preferredOrder[k] = token) - 1
    ELSE -1

compareViewsUnknownFirst(preferredOrder, a, b) ==
    LET indexA == indexOf(preferredOrder, sortToken(a))
        indexB == indexOf(preferredOrder, sortToken(b))
    IN  IF indexA = -1 /\ indexB = -1 THEN localeCompare(a, b)
        ELSE IF indexA = -1 THEN -1
        ELSE IF indexB = -1 THEN 1
        ELSE indexA - indexB

\* the comparator given to list.sort
compareViews(preferredOrder, a, b) ==
    LET indexA == indexOf(preferredOrder, sortToken(a))
        indexB == indexOf(preferredOrder, sortToken(b))
    IN  IF indexA = -1 /\ indexB = -1 THEN localeCompare(a, b)
        ELSE IF indexA = -1 THEN 1
        ELSE IF indexB = -1 THEN -1
        ELSE indexA - indexB

insertAt(list, k, x) == SubSeq(list, 1, k - 1) \o <<x>> \o SubSeq(list, k, Len(list))

\* x placed before the first element of done it compares less than or equal to
insertBeforeTies(preferredOrder, done, x) ==
    LET later == { k \in 1..Len(done) : compareViews(preferredOrder, x, done[k]) <= 0 }
    IN  IF later = {} THEN Append(done, x)
        ELSE insertAt(done, CHOOSE k \in later : \A m \in later : k <= m, x)

\* x placed before the first element of done it compares less than
insertSorted(preferredOrder, done, x) ==
    LET later == { k \in 1..Len(done) : compareViews(preferredOrder, x, done[k]) < 0 }
    IN  IF later = {} THEN Append(done, x)
        ELSE insertAt(done, CHOOSE k \in later : \A m \in later : k <= m, x)

RECURSIVE sortViewsTiesReversed(_, _)
sortViewsTiesReversed(preferredOrder, list) ==
    IF list = <<>> THEN <<>>
    ELSE insertBeforeTies(preferredOrder,
                          sortViewsTiesReversed(preferredOrder, SubSeq(list, 1, Len(list) - 1)),
                          list[Len(list)])

RECURSIVE sortViews(_, _)
\* Array.prototype.sort with the comparator: a stable sort; each element
\* goes before the first already placed element it compares less than
sortViews(preferredOrder, list) ==
    IF list = <<>> THEN <<>>
    ELSE insertSorted(preferredOrder,
                      sortViews(preferredOrder, SubSeq(list, 1, Len(list) - 1)),
                      list[Len(list)])

isGrayView(view) == startsWith(view, <<"g","r","a","y","_">>)

isNotGrayView(view) == ~isGrayView(view)

\* the gray and nonGray lists of a product, in the order of views.entries()
grayViews(viewKeys) == SelectSeq(viewKeys, isGrayView)

nonGrayViews(viewKeys) == SelectSeq(viewKeys, isNotGrayView)

\* `${productId}_${view}.jpg`
outputFilename(productId, view) == productId \o <<"_">> \o view \o <<".","j","p","g">>

\* the row exportViewCSV pushes for a product; viewKeys are the keys of
\* product.views in insertion order
inventoryRow(productId, viewKeys) ==
    LET gray == sortViews(grayPreferredOrder, grayViews(viewKeys))
        nonGray == sortViews(defaultPreferredOrder, nonGrayViews(viewKeys))
    IN  [productId |-> productId,
         nonGray |-> [i \in 1..Len(nonGray) |-> outputFilename(productId, nonGray[i])],
         gray |-> [i \in 1..Len(gray) |-> outputFilename(productId, gray[i])]]

(***************************************************************************)
(* Inputs of the inventory row checks                                       *)
(***************************************************************************)
MaxViews == 3

SortKeys ==
    { <<"g","r","a","y","_","p","r","o","f","i","l","e","_","8","0","0","x","6","0","0">>, <<"g","r","a","y","_","m","a","i","n">>, <<"g","r","a","y","_","m","a","i","n","_","6","4","x","6","4">>, <<"g","r","a","y","_","o","u","t","s","o","l","e">>,
      <<"g","r","a","y","_","z","z">>, <<"g","r","a","y","_","f","r","o","n","t","_","8","0","0","x","6","0","0">>,
      <<"d","e","f","a","u","l","t","_","m","a","i","n","_","8","0","0","x","6","0","0">>, <<"w","h","i","t","e","_","m","a","i","n","_","8","0","0","x","6","0","0">>, <<"d","e","f","a","u","l","t","_","m","a","i","n">>,
      <<"d","e","f","a","u","l","t","_","l","i","f","e","s","t","y","l","e">>, <<"d","e","f","a","u","l","t","_","d","o","u","b","l","e","h","e","e","l">>, <<"d","e","f","a","u","l","t","_","7","_","8","0","0","x","6","0","0">>, <<"d","e","f","a","u","l","t","_","7","1">> }

\* the key lists a Map can hold: no key twice
SortKeyLists ==
    { l \in UNION { [1..n -> SortKeys] : n \in 0..MaxViews } :
        \A i, j \in 1..Len(l) : l[i] = l[j] => i = j }

SortInit ==
    /\ PipelineIdle
    /\ \E viewKeys \in SortKeyLists :
          call = [state |-> "called", productId |-> <<"A","B","C","1","2","3">>, viewKeys |-> viewKeys,
                  row |-> <<>>, gray |-> <<>>, nonGray |-> <<>>,
                  grayAgain |-> <<>>, nonGrayAgain |-> <<>>]

\* the body of exportViewCSV's loop for one product
SortRow ==
    /\ call.state = "called"
    /\ call' = [call EXCEPT !.state = "sorted",
                            !.row = inventoryRow(call.productId, call.viewKeys),
                            !.gray = sortViews(grayPreferredOrder, grayViews(call.viewKeys)),
                            !.nonGray = sortViews(defaultPreferredOrder, nonGrayViews(call.viewKeys))]
    /\ UNCHANGED pipelineVars

\* list.sort(comparator) once more on the sorted lists
SortAgain ==
    /\ call.state = "sorted"
    /\ call' = [call EXCEPT !.state = "resorted",
                            !.grayAgain = sortViews(grayPreferredOrder, call.gray),
                            !.nonGrayAgain = sortViews(defaultPreferredOrder, call.nonGray)]
    /\ UNCHANGED pipelineVars

SortNext == SortRow \/ SortAgain

SpecSort == SortInit /\ [][SortNext]_vars

(***************************************************************************)
(* The script: allow-lists, catalogs, resolution, views, export, copy       *)
(***************************************************************************)
\* s.replace(pattern, '') with a string pattern: the first occurrence goes
replaceFirst(s, pattern) ==
    LET hits == { k \in 1..(Len(s) - Len(pattern) + 1) :
                    SubSeq(s, k, k + Len(pattern) - 1) = pattern }
        at == CHOOSE k \in hits : \A m \in hits : k <= m
    IN  IF hits = {} THEN s
        ELSE SubSeq(s, 1, at - 1) \o SubSeq(s, at + Len(pattern), Len(s))

RECURSIVE trim(_)
\* s.trim()
trim(s) ==
    IF s # <<>> /\ s[1] \in WhitespaceChars THEN trim(Tail(s))
    ELSE IF s # <<>> /\ s[Len(s)] \in WhitespaceChars THEN trim(SubSeq(s, 1, Len(s) - 1))
    ELSE s

\* new Set(content.split(/\r?\n/).map(s => s.trim()).filter(Boolean))
styleSetOf(lines) == { trim(lines[i]) : i \in 1..Len(lines) } \ { <<>> }

isStylesFile(file) == endsWith(file.name, <<"_","s","t","y","l","e","s",".","t","x","t">>)

stylesBaseName(name) == replaceFirst(name, <<"_","s","t","y","l","e","s",".","t","x","t">>)

\* stylesMap after the loop over the allow-list files of the styles directory
loadStyles(files) ==
    LET listed == { i \in 1..Len(files) : isStylesFile(files[i]) }
        lastOf(b) == CHOOSE i \in listed :
                        /\ stylesBaseName(files[i].name) = b
                        /\ \A j \in listed : stylesBaseName(files[j].name) = b => j <= i
    IN  [b \in { stylesBaseName(files[i].name) : i \in listed } |-> styleSetOf(files[lastOf(b)].lines)]

isXmlFile(file) == endsWith(file.name, <<".","x","m","l">>)

\* fs.readdirSync(catalogsDir).filter(f => f.endsWith('.xml'))
xmlFiles(files) == SelectSeq(files, isXmlFile)

\* f.replace('_catalog.xml', '').replace('.xml', '')
catalogBaseName(f) == replaceFirst(replaceFirst(f, <<"_","c","a","t","a","l","o","g",".","x","m","l">>), <<".","x","m","l">>)

acceptedViewTypes == { "hi-res", "grid-large" }

isAcceptedImage(image) == image.viewType \in acceptedViewTypes

\* the paths of the images in the hi-res and grid-large groups of a product
imagePathsOf(product) ==
    LET accepted == SelectSeq(product.images, isAcceptedImage)
    IN  [i \in 1..Len(accepted) |-> accepted[i].path]

RECURSIVE extractProducts(_, _, _)
\* what the loop over the product elements of a catalog pushes onto xmlData
extractProducts(products, allowedStyles, f) ==
    IF products = <<>> THEN <<>>
    ELSE (IF Head(products).productId \in allowedStyles /\ imagePathsOf(Head(products)) # <<>>
          THEN << [productId |-> Head(products).productId,
                   images |-> imagePathsOf(Head(products)),
                   xmlFileName |-> f] >>
          ELSE <<>>)
         \o extractProducts(Tail(products), allowedStyles, f)

warning(text, subject) == [level |-> "WARN", text |-> text, subject |-> subject]

RECURSIVE resolveImagesUnchecked(_, _)
resolveImagesUnchecked(entries, images) ==
    IF entries = <<>> THEN <<>>
    ELSE << [productId |-> Head(entries).productId, images |-> Head(entries).images,
             xmlFileName |-> Head(entries).xmlFileName, views |-> <<>>] >>
         \o resolveImagesUnchecked(Tail(entries), images)

RECURSIVE resolveImages(_, _)
\* productImagesAvailable: each entry with the paths that exist in the image
\* store, if there is one (views is set later, by processProductViews)
resolveImages(entries, images) ==
    IF entries = <<>> THEN <<>>
    ELSE LET exists(imagePath) == imagePath \in images
         IN  (IF SelectSeq(Head(entries).images, exists) # <<>>
              THEN << [productId |-> Head(entries).productId,
                       images |-> SelectSeq(Head(entries).images, exists),
                       xmlFileName |-> Head(entries).xmlFileName,
                       views |-> <<>>] >>
              ELSE <<>>)
             \o resolveImages(Tail(entries), images)

mapSetKeepFirst(map, key, path) ==
    IF \E i \in 1..Len(map) : map[i].key = key
    THEN map
    ELSE Append(map, [key |-> key, path |-> path])

\* Map.prototype.set: a known key keeps its place and takes the new value
mapSet(map, key, path) ==
    IF \E i \in 1..Len(map) : map[i].key = key
    THEN [map EXCEPT ![CHOOSE i \in 1..Len(map) : map[i].key = key].path = path]
    ELSE Append(map, [key |-> key, path |-> path])

\* Array.from(views.keys())
mapKeys(map) == [i \in 1..Len(map) |-> map[i].key]

mapHas(map, key) == \E i \in 1..Len(map) : map[i].key = key

mapGet(map, key) == map[CHOOSE i \in 1..Len(map) : map[i].key = key].path

RECURSIVE viewsOf(_, _, _)
\* the Map processProductViews builds for a product, given the metadata the
\* probe of each image returned
viewsOf(productId, images, probes) ==
    IF images = <<>> THEN <<>>
    ELSE mapSet(viewsOf(productId, SubSeq(images, 1, Len(images) - 1),
                        SubSeq(probes, 1, Len(probes) - 1)),
                extractImageView(productId, images[Len(images)], probes[Len(probes)]),
                images[Len(images)])

\* `${activeCatalogBase}_catalog-image-inventory-export.csv`
inventoryFileName(base) == base \o <<"_","c","a","t","a","l","o","g","-","i","m","a","g","e","-","i","n","v","e","n","t","o","r","y","-","e","x","p","o","r","t",".","c","s","v">>

\* csvContent without its header line
inventoryRows(products) ==
    [k \in 1..Len(products) |-> inventoryRow(products[k].productId, mapKeys(products[k].views))]

copyJobsOfProductFirstImage(product) ==
    [v \in 1..Len(product.views) |->
        [filename |-> outputFilename(product.productId, product.views[v].key),
         source |-> product.images[1]]]

copyJobsOfProduct(product) ==
    [v \in 1..Len(product.views) |->
        [filename |-> outputFilename(product.productId, product.views[v].key),
         source |-> product.views[v].path]]

RECURSIVE copyJobs(_)
\* the copyFileSync calls of copyImagesToOutput, in order
copyJobs(products) ==
    IF products = <<>> THEN <<>>
    ELSE copyJobsOfProduct(Head(products)) \o copyJobs(Tail(products))

RECURSIVE copyFilesStopAtFailure(_, _, _)
copyFilesStopAtFailure(jobs, failed, files) ==
    IF jobs = <<>> \/ \E n \in failed : n <= Len(jobs)
    THEN (IF jobs = <<>> THEN files
          ELSE copyFilesStopAtFailure(SubSeq(jobs, 1, Len(jobs) - 1), failed, files))
    ELSE (jobs[Len(jobs)].filename :> jobs[Len(jobs)].source)
         @@ copyFilesStopAtFailure(SubSeq(jobs, 1, Len(jobs) - 1), failed, files)

RECURSIVE copyFiles(_, _, _)
\* the output directory after the jobs, those in failed having thrown
copyFiles(jobs, failed, files) ==
    IF jobs = <<>> THEN files
    ELSE IF Len(jobs) \in failed
    THEN copyFiles(SubSeq(jobs, 1, Len(jobs) - 1), failed, files)
    ELSE (jobs[Len(jobs)].filename :> jobs[Len(jobs)].source)
         @@ copyFiles(SubSeq(jobs, 1, Len(jobs) - 1), failed, files)

RECURSIVE copyWarnings(_, _)
copyWarnings(jobs, failed) ==
    IF jobs = <<>> THEN <<>>
    ELSE copyWarnings(SubSeq(jobs, 1, Len(jobs) - 1), failed)
         \o (IF Len(jobs) \in failed
             THEN << warning("Failed to copy", jobs[Len(jobs)].filename) >>
             ELSE <<>>)

(***************************************************************************)
(* The Shopify manifest (generateMatrixifyCSV)                              *)
(***************************************************************************)
quoteChar == "\""

newlineChar == "\n"

carriageReturnChar == "\r"

includes(s, c) == \E k \in 1..Len(s) : s[k] = c

RECURSIVE split(_, _)
\* s.split(c) for a separator c of one character
split(s, c) ==
    IF ~includes(s, c) THEN << s >>
    ELSE LET at == CHOOSE k \in 1..Len(s) : s[k] = c /\ \A m \in 1..(k - 1) : s[m] # c
         IN  << SubSeq(s, 1, at - 1) >> \o split(SubSeq(s, at + 1, Len(s)), c)

RECURSIVE join(_, _)
\* list.join(separator)
join(list, separator) ==
    IF list = <<>> THEN <<>>
    ELSE IF Len(list) = 1 THEN list[1]
    ELSE list[1] \o separator \o join(Tail(list), separator)

\* text.split(/\r?\n/)
splitLines(text) ==
    LET pieces == split(text, newlineChar)
    IN  [i \in 1..Len(pieces) |->
            IF i < Len(pieces) /\ pieces[i] # <<>>
               /\ pieces[i][Len(pieces[i])] = carriageReturnChar
            THEN SubSeq(pieces[i], 1, Len(pieces[i]) - 1)
            ELSE pieces[i]]

\* the typographic quotes, each one character of a string
rightSingleQuote == "U+2019"

leftDoubleQuote == "U+201C"

rightDoubleQuote == "U+201D"

\* the characters the regular expressions of sanitizeText delete
controlChars == { newlineChar, carriageReturnChar, "\t" }

isNotControlChar(c) == c \notin controlChars

\* sanitizeText: typographic quotes become plain ones, control and zero-width
\* characters go, the rest is trimmed
sanitizeText(str) ==
    LET plain == [i \in 1..Len(str) |->
                    IF str[i] = rightSingleQuote THEN "'"
                    ELSE IF str[i] \in { leftDoubleQuote, rightDoubleQuote } THEN quoteChar
                    ELSE str[i]]
    IN  trim(SelectSeq(plain, isNotControlChar))

\* const header = ['productId', 'nonGrayImageFileNames', 'grayImageFileNames']
inventoryHeader == <<"p","r","o","d","u","c","t","I","d",",","n","o","n","G","r","a","y","I","m","a","g","e","F","i","l","e","N","a","m","e","s",",","g","r","a","y","I","m","a","g","e","F","i","l","e","N","a","m","e","s">>

\* `"${productId}","${nonGrayList}","${grayList}"`
inventoryRowText(row) ==
    << quoteChar >> \o row.productId \o << quoteChar, ",", quoteChar >>
        \o join(row.nonGray, <<","," ">>) \o << quoteChar, ",", quoteChar >>
        \o join(row.gray, <<","," ">>) \o << quoteChar >>

\* csvContent.join('\n'): what writeFileSync puts into the inventory file
inventoryFileText(rows) ==
    join(<< inventoryHeader >> \o [k \in 1..Len(rows) |-> inventoryRowText(rows[k])],
         << newlineChar >>)

quotesFrom(s, k) == Cardinality({ m \in k..Len(s) : s[m] = quoteChar })

RECURSIVE splitCsvRow(_)
\* row.split(/,(?=(?:(?:[^"]*"){2})*[^"]*$)/): the commas followed by an even
\* number of quotes
splitCsvRow(row) ==
    LET cuts == { k \in 1..Len(row) : row[k] = "," /\ quotesFrom(row, k + 1) % 2 = 0 }
        at == CHOOSE k \in cuts : \A m \in cuts : k <= m
    IN  IF cuts = {} THEN << row >>
        ELSE << SubSeq(row, 1, at - 1) >> \o splitCsvRow(SubSeq(row, at + 1, Len(row)))

\* s.replace(/^"|"$/g, '')
stripQuotes(s) ==
    LET open == IF s # <<>> /\ s[1] = quoteChar THEN Tail(s) ELSE s
    IN  IF open # <<>> /\ open[Len(open)] = quoteChar
        THEN SubSeq(open, 1, Len(open) - 1)
        ELSE open

\* [style, nonGrayListRaw, grayListRaw] of a line of the inventory file
inventoryFields(row) ==
    LET fields == splitCsvRow(row)
    IN  [i \in 1..Len(fields) |-> trim(stripQuotes(fields[i]))]

RECURSIVE parseStyleMap(_, _)
\* styleMap after the loop over the lines of the style map CSV, the header
\* line left out: style -> { id, title }
parseStyleMap(lines, map) ==
    IF lines = <<>> THEN map
    ELSE LET fields == split(Head(lines), ",")
             field(n) == IF n <= Len(fields) THEN trim(fields[n]) ELSE <<>>
         IN  parseStyleMap(Tail(lines),
                 IF field(3) # <<>>
                 THEN (field(3) :> [id |-> field(1), title |-> field(2)]) @@ map
                 ELSE map)

isNotBlank(line) == trim(line) # <<>>

\* the Map built from the content of the style map CSV
styleMapOf(lines) == parseStyleMap(Tail(SelectSeq(lines, isNotBlank)), <<>>)

manifestRowStyleOnSecond(trimmed, position, productInfo, style) ==
    LET parts == split(trimmed, "_")
        dimPart == replaceFirst(parts[Len(parts)], <<".","j","p","g">>)
        view == parts[Len(parts) - 1]
        dims == IF includes(dimPart, "x") THEN split(dimPart, "x") ELSE << <<>>, <<>> >>
        cleanView == sanitizeText(view)
        viewText == IF cleanView = <<"d","e","f","a","u","l","t">> THEN <<>> ELSE <<" ","-"," ">> \o cleanView
    IN  [id |-> productInfo.id,
         imageSrc |-> trimmed,
         position |-> position,
         width |-> dims[1],
         height |-> dims[2],
         altText |-> sanitizeText(productInfo.title) \o viewText,
         style |-> IF position = 2 THEN style ELSE <<>>]

\* the array pushed onto output for one image; position++ is evaluated
\* before position === 2, which therefore sees the incremented counter
manifestRow(trimmed, position, productInfo, style) ==
    LET parts == split(trimmed, "_")
        dimPart == replaceFirst(parts[Len(parts)], <<".","j","p","g">>)
        view == parts[Len(parts) - 1]
        dims == IF includes(dimPart, "x") THEN split(dimPart, "x") ELSE << <<>>, <<>> >>
        cleanView == sanitizeText(view)
        viewText == IF cleanView = <<"d","e","f","a","u","l","t">> THEN <<>> ELSE <<" ","-"," ">> \o cleanView
        incremented == position + 1
    IN  [id |-> productInfo.id,
         imageSrc |-> trimmed,
         position |-> position,
         width |-> dims[1],
         height |-> dims[2],
         altText |-> sanitizeText(productInfo.title) \o viewText,
         style |-> IF incremented = 2 THEN style ELSE <<>>]

RECURSIVE manifestRowsOfImages(_, _, _, _)
\* the loop over imageList: blank entries are passed over
manifestRowsOfImages(imageList, position, productInfo, style) ==
    IF imageList = <<>> THEN <<>>
    ELSE IF trim(Head(imageList)) = <<>>
    THEN manifestRowsOfImages(Tail(imageList), position, productInfo, style)
    ELSE << manifestRow(trim(Head(imageList)), position, productInfo, style) >>
         \o manifestRowsOfImages(Tail(imageList), position + 1, productInfo, style)

imageListOfNonGrayFirst(fields) ==
    IF fields[2] # <<>> THEN split(fields[2], ",") ELSE split(fields[3], ",")

\* grayListRaw ? grayListRaw.split(',') : nonGrayListRaw.split(',')
imageListOf(fields) ==
    IF fields[3] # <<>> THEN split(fields[3], ",") ELSE split(fields[2], ",")

RECURSIVE manifestRowsOf(_, _)
\* the loop over the lines of the inventory file, the header line left out
manifestRowsOf(rows, map) ==
    IF rows = <<>> THEN <<>>
    ELSE LET fields == inventoryFields(Head(rows))
         IN  (IF trim(Head(rows)) = <<>> \/ fields[1] \notin DOMAIN map
              THEN <<>>
              ELSE manifestRowsOfImages(imageListOf(fields), 1, map[fields[1]], fields[1]))
             \o manifestRowsOf(Tail(rows), map)

\* `${activeCatalogBase}_styles.csv`
styleMapFileName(base) == base \o <<"_","s","t","y","l","e","s",".","c","s","v">>

\* `${activeCatalogBase}_matrixify_image_upload.csv`
matrixifyFileName(base) == base \o <<"_","m","a","t","r","i","x","i","f","y","_","i","m","a","g","e","_","u","p","l","o","a","d",".","c","s","v">>

errorLine(text, subject) == [level |-> "ERROR", text |-> text, subject |-> subject]

NoStyleMapFile == [exists |-> FALSE, lines |-> <<>>]

\* what the style map CSV of the active catalog may be
ShopifyStyleFiles ==
    { NoStyleMapFile,
      [exists |-> TRUE,
       lines |-> << <<"I","D",",","T","i","t","l","e",",","S","t","y","l","e">>, <<"1","0","1",","," ","B","o","o","t"," ","A"," ",",","A","1">>, <<" ">>, <<"2","0","2",",","B","o","o","t"," ","B",",","B","2">>,
                    <<"3","0","3",",","L","o","o","s","e">> >>],
      [exists |-> TRUE, lines |-> << <<"I","D",",","T","i","t","l","e",",","S","t","y","l","e">>, <<"1","0","1",",","B","o","o","t"," ","A",",","A","1">> >>] }

(***************************************************************************)
(* The directories of a run                                                 *)
(***************************************************************************)
MaxImages == 2

PipelinePaths == { <<"g","r","a","y","/","A","1","_","8",".","j","p","g">>, <<"A","1","_","l","a","r","g","e",".","j","p","g">>, <<"s","p","i","n","s","/","A","1","_","t","h","u","m","b","n","a","i","l",".","j","p","g">> }

PipelineImageLists == UNION { [1..n -> PipelinePaths] : n \in 0..MaxImages }

PipelineProbeOutcomes == { NoMetadata, [ok |-> TRUE, width |-> 800, height |-> 600] }

catalogA(imageList) ==
    [name |-> <<"a","_","c","a","t","a","l","o","g",".","x","m","l">>,
     products |->
        << [productId |-> <<"A","1">>,
            images |-> [i \in 1..Len(imageList) |->
                           [viewType |-> IF i = 1 THEN "hi-res" ELSE "grid-large",
                            path |-> imageList[i]]]
                       \o << [viewType |-> "swatch", path |-> <<"s","w","a","t","c","h","/","A","1","_","s","w",".","j","p","g">>] >>],
           [productId |-> <<"X","9">>,
            images |-> << [viewType |-> "hi-res", path |-> <<"X","9",".","j","p","g">>] >>] >>]

catalogB ==
    [name |-> <<"b",".","x","m","l">>,
     products |-> << [productId |-> <<"B","2">>,
                     images |-> << [viewType |-> "hi-res", path |-> <<"B","2","_","9",".","j","p","g">>] >>] >>]

otherFile == [name |-> <<"r","e","a","d","m","e",".","t","x","t">>, products |-> <<>>, lines |-> << <<"X","9">> >>]

\* what readdirSync(catalogsDir) may return
CatalogListings(imageList) ==
    { << catalogA(imageList), catalogB, otherFile >>,
      << catalogB, otherFile, catalogA(imageList) >>,
      << otherFile, catalogA(imageList) >> }

stylesA == [name |-> <<"a","_","s","t","y","l","e","s",".","t","x","t">>, lines |-> << <<" ","A","1"," ">>, <<>>, <<" ">> >>]

stylesB == [name |-> <<"b","_","s","t","y","l","e","s",".","t","x","t">>, lines |-> << <<"B","2">> >>]

\* what readdirSync(stylesDir) may return
StylesListings ==
    { << stylesA, stylesB, otherFile >>, << stylesA, otherFile >>,
      << otherFile, stylesB >>, << otherFile >> }

allImages == PipelinePaths \cup { <<"B","2","_","9",".","j","p","g">>, <<"X","9",".","j","p","g">>, <<"s","w","a","t","c","h","/","A","1","_","s","w",".","j","p","g">> }

ImageStores == { allImages, allImages \ { <<"A","1","_","l","a","r","g","e",".","j","p","g">> }, allImages \ { <<"B","2","_","9",".","j","p","g">> } }

\* [catalogsDir, stylesDir, imagesDir, outputDir, matrixifyDir]
topLevelDirs == { "sfcc-catalogs", "sfcc-styles", "sfcc-images", "sfcc-images-output",
                  "matrixify" }

\* the top-level directories that may be absent when the script starts
MissingDirs == { {}, { "sfcc-images-output" }, { "sfcc-catalogs" } }

Init ==
    /\ call = [state |-> "idle"]
    /\ \E imageList \in PipelineImageLists, stylesFiles \in StylesListings,
          images \in ImageStores, inventoryDir \in BOOLEAN, missing \in MissingDirs :
          \E catalogFiles \in IF "sfcc-catalogs" \in missing THEN { <<>> }
                               ELSE CatalogListings(imageList) :
             disk = [catalogFiles |-> catalogFiles, stylesFiles |-> stylesFiles,
                     images |-> images, inventoryDir |-> inventoryDir,
                     dirs |-> topLevelDirs \ missing]
    /\ pc = "setup"
    /\ stylesMap = <<>>
    /\ activeCatalogBase = <<>>
    /\ xmlData = <<>>
    /\ productImagesAvailable = <<>>
    /\ catalogIndex = 1
    /\ productIndex = 1
    /\ imageIndex = 1
    /\ views = <<>>
    /\ probeLog = <<>>
    /\ inventoryFiles = <<>>
    /\ outputFiles = <<>>
    /\ log = <<>>
    /\ styleMap = <<>>
    /\ matrixifyFiles = <<>>

\* the forEach over the top-level directories: a missing one is created
SetUpDirectories ==
    /\ pc = "setup"
    /\ disk' = [disk EXCEPT !.dirs = topLevelDirs]
    /\ pc' = "styles"
    /\ UNCHANGED <<call, styleMap, matrixifyFiles, stylesMap, activeCatalogBase, xmlData,
                   productImagesAvailable, catalogIndex, productIndex, imageIndex,
                   views, probeLog, inventoryFiles, outputFiles, log>>

\* the loop over the allow-list files
LoadStyles ==
    /\ pc = "styles"
    /\ stylesMap' = loadStyles(disk.stylesFiles)
    /\ pc' = IF xmlFiles(disk.catalogFiles) = <<>> THEN "resolve" ELSE "parse"
    /\ UNCHANGED <<call, styleMap, matrixifyFiles, disk, activeCatalogBase, xmlData,
                   productImagesAvailable, catalogIndex, productIndex, imageIndex,
                   views, probeLog, inventoryFiles, outputFiles, log>>

ParseCatalogStopAtSkipped ==
    /\ pc = "parse"
    /\ LET f == xmlFiles(disk.catalogFiles)[catalogIndex]
           baseName == catalogBaseName(f.name)
       IN  /\ activeCatalogBase' = baseName
           /\ IF baseName \in DOMAIN stylesMap
              THEN /\ xmlData' = xmlData \o extractProducts(f.products, stylesMap[baseName], f.name)
                   /\ log' = log
                   /\ pc' = IF catalogIndex = Len(xmlFiles(disk.catalogFiles))
                            THEN "resolve" ELSE "parse"
              ELSE /\ xmlData' = xmlData
                   /\ log' = Append(log, warning("No styles list found for catalog", f.name))
                   /\ pc' = "resolve"
    /\ catalogIndex' = catalogIndex + 1
    /\ UNCHANGED <<call, styleMap, matrixifyFiles, disk, stylesMap,
                   productImagesAvailable, productIndex, imageIndex, views, probeLog,
                   inventoryFiles, outputFiles>>

\* the forEach callback for one catalog file
ParseCatalog ==
    /\ pc = "parse"
    /\ LET f == xmlFiles(disk.catalogFiles)[catalogIndex]
           baseName == catalogBaseName(f.name)
       IN  /\ activeCatalogBase' = baseName
           /\ IF baseName \in DOMAIN stylesMap
              THEN /\ xmlData' = xmlData \o extractProducts(f.products, stylesMap[baseName], f.name)
                   /\ log' = log
              ELSE /\ xmlData' = xmlData
                   /\ log' = Append(log, warning("No styles list found for catalog", f.name))
    /\ catalogIndex' = catalogIndex + 1
    /\ pc' = IF catalogIndex = Len(xmlFiles(disk.catalogFiles)) THEN "resolve" ELSE "parse"
    /\ UNCHANGED <<call, styleMap, matrixifyFiles, disk, stylesMap,
                   productImagesAvailable, productIndex, imageIndex, views, probeLog,
                   inventoryFiles, outputFiles>>

\* xmlData.forEach: the existence check of every candidate path
ResolveImages ==
    /\ pc = "resolve"
    /\ productImagesAvailable' = resolveImages(xmlData, disk.images)
    /\ probeLog' = [k \in 1..Len(productImagesAvailable') |-> <<>>]
    /\ pc' = "views"
    /\ UNCHANGED <<call, styleMap, matrixifyFiles, disk, stylesMap, activeCatalogBase,
                   xmlData, catalogIndex, productIndex, imageIndex, views,
                   inventoryFiles, outputFiles, log>>

\* sharp(imageFullPath).metadata() reads the file, and the image store does
\* not change during a run: a path probed before gives what it gave then
sameFileSameMetadata(imagePath, metadata) ==
    \A k \in 1..Len(probeLog) :
        \A i \in 1..Len(probeLog[k]) :
            productImagesAvailable[k].images[i] = imagePath => probeLog[k][i] = metadata

\* processProductViews from one await to the next: the probe of the current
\* image returns or throws, its view is set in the Map, and after the last
\* image of the product the Map becomes product.views
ProbeImage ==
    /\ pc = "views"
    /\ productIndex <= Len(productImagesAvailable)
    /\ \E metadata \in PipelineProbeOutcomes :
          LET product == productImagesAvailable[productIndex]
              imagePath == product.images[imageIndex]
              view == extractImageView(product.productId, imagePath, metadata)
          IN  /\ sameFileSameMetadata(imagePath, metadata)
              /\ probeLog' = [probeLog EXCEPT ![productIndex] = Append(@, metadata)]
              /\ log' = IF metadata.ok THEN log
                        ELSE Append(log, warning("Could not get dimensions for", imagePath))
              /\ IF imageIndex = Len(product.images)
                 THEN /\ productImagesAvailable' =
                            [productImagesAvailable EXCEPT
                                ![productIndex].views = mapSet(views, view, imagePath)]
                      /\ views' = <<>>
                      /\ productIndex' = productIndex + 1
                      /\ imageIndex' = 1
                 ELSE /\ views' = mapSet(views, view, imagePath)
                      /\ imageIndex' = imageIndex + 1
                      /\ UNCHANGED <<productImagesAvailable, productIndex>>
    /\ UNCHANGED <<call, styleMap, matrixifyFiles, disk, pc, stylesMap,
                   activeCatalogBase, xmlData, catalogIndex, inventoryFiles,
                   outputFiles>>

SummarizeViewsEarly ==
    /\ pc = "views"
    /\ pc' = "export"
    /\ UNCHANGED <<call, styleMap, matrixifyFiles, disk, stylesMap, activeCatalogBase,
                   xmlData, productImagesAvailable, catalogIndex, productIndex,
                   imageIndex, views, probeLog, inventoryFiles, outputFiles, log>>

\* the view summary table; the promise of processProductViews resolves
SummarizeViews ==
    /\ pc = "views"
    /\ productIndex > Len(productImagesAvailable)
    /\ pc' = "export"
    /\ UNCHANGED <<call, styleMap, matrixifyFiles, disk, stylesMap, activeCatalogBase,
                   xmlData, productImagesAvailable, catalogIndex, productIndex,
                   imageIndex, views, probeLog, inventoryFiles, outputFiles, log>>

\* exportViewCSV: one file, named after activeCatalogBase, with a row for
\* every product; writeFileSync throws when script-image-list-output is
\* missing, which ends the then-callback
ExportViewCSV ==
    /\ pc = "export"
    /\ IF disk.inventoryDir
       THEN /\ inventoryFiles' =
                 (inventoryFileName(activeCatalogBase) :> inventoryRows(productImagesAvailable))
                 @@ inventoryFiles
            /\ pc' = "copy"
       ELSE /\ inventoryFiles' = inventoryFiles
            /\ pc' = "crashed"
    /\ UNCHANGED <<call, styleMap, matrixifyFiles, disk, stylesMap, activeCatalogBase,
                   xmlData, productImagesAvailable, catalogIndex, productIndex,
                   imageIndex, views, probeLog, outputFiles, log>>

\* copyImagesToOutput: every product/view pair is copied; a copy that throws
\* is logged and the loop goes on
CopyImagesToOutput ==
    /\ pc = "copy"
    /\ \E failed \in SUBSET (1..Len(copyJobs(productImagesAvailable))) :
          /\ outputFiles' = copyFiles(copyJobs(productImagesAvailable), failed, outputFiles)
          /\ log' = log \o copyWarnings(copyJobs(productImagesAvailable), failed)
    /\ pc' = "matrixify"
    /\ UNCHANGED <<call, styleMap, matrixifyFiles, disk, stylesMap, activeCatalogBase,
                   xmlData, productImagesAvailable, catalogIndex, productIndex,
                   imageIndex, views, probeLog, inventoryFiles>>

\* generateMatrixifyCSV: the style map CSV of the active catalog is read, the
\* inventory file is read back, and the manifest is written
GenerateMatrixifyCSV ==
    /\ pc = "matrixify"
    /\ \E styleMapFile \in ShopifyStyleFiles :
          IF ~styleMapFile.exists
          THEN /\ log' = Append(log, errorLine("Missing Shopify style map CSV",
                                               styleMapFileName(activeCatalogBase)))
               /\ UNCHANGED <<styleMap, matrixifyFiles>>
          ELSE /\ styleMap' = styleMapOf(styleMapFile.lines)
               /\ IF inventoryFileName(activeCatalogBase) \notin DOMAIN inventoryFiles
                  THEN /\ log' = Append(log, errorLine("Missing image inventory CSV",
                                                       inventoryFileName(activeCatalogBase)))
                       /\ UNCHANGED matrixifyFiles
                  ELSE /\ matrixifyFiles' =
                            (matrixifyFileName(activeCatalogBase) :>
                                manifestRowsOf(
                                    Tail(splitLines(inventoryFileText(
                                        inventoryFiles[inventoryFileName(activeCatalogBase)]))),
                                    styleMap'))
                            @@ matrixifyFiles
                       /\ log' = log
    /\ pc' = "done"
    /\ UNCHANGED <<call, disk, stylesMap, activeCatalogBase, xmlData,
                   productImagesAvailable, catalogIndex, productIndex, imageIndex,
                   views, probeLog, inventoryFiles, outputFiles>>

\* the probes awaited and not yet settled: the one the loops of
\* processProductViews are suspended on
outstandingProbes ==
    IF pc = "views" /\ productIndex <= Len(productImagesAvailable)
    THEN { <<productIndex, imageIndex>> }
    ELSE {}

Next ==
    \/ SetUpDirectories
    \/ LoadStyles
    \/ ParseCatalog
    \/ ResolveImages
    \/ ProbeImage
    \/ SummarizeViews
    \/ ExportViewCSV
    \/ CopyImagesToOutput
    \/ GenerateMatrixifyCSV

Spec == Init /\ [][Next]_vars

(***************************************************************************)
(* Classifier claims (checked under SpecClassify)                           *)
(***************************************************************************)
Returned == call.state = "returned"

Buckets == { <<"d","e","f","a","u","l","t">>, <<"g","r","a","y">>, <<"w","h","i","t","e">> }

\* the key composed of a bucket, a view and the probe outcome
keyOf(bucket, view, metadata) ==
    replaceHyphens(bucket \o <<"_">> \o view
                   \o (IF metadata.ok THEN <<"_">> \o imageDimensions(metadata) ELSE <<>>))

C1_ScenarioA ==
    /\ Returned
    /\ call.productId = <<"A","B","C","1","2","3">>
    /\ call.imagePath = <<"g","r","a","y","/","A","B","C","1","2","3","_","i","n","s","t","e","p","p","r","o","f","i","l","e","_","l","a","r","g","e",".","j","p","g">>
    /\ call.metadata = [ok |-> TRUE, width |-> 800, height |-> 600]

\* C1 as stated: gray/ABC123_instepprofile_large.jpg for product ABC123
\* with an 800x600 probe classifies to gray_instep_profile_800x600.
C1_ScenarioA_InstepProfile == C1_ScenarioA => call.result = <<"g","r","a","y","_","i","n","s","t","e","p","_","p","r","o","f","i","l","e","_","8","0","0","x","6","0","0">>

\* C1 amended: the token instepprofile is no code of the label table and
\* passes through unchanged; the key is gray_instepprofile_800x600.
C1_ScenarioA_Unchanged == C1_ScenarioA => call.result = <<"g","r","a","y","_","i","n","s","t","e","p","p","r","o","f","i","l","e","_","8","0","0","x","6","0","0">>

C1_Witness == C1_ScenarioA

\* the label table as C2 states it
C2_CodeLabels ==
    { <<<<"2">>, <<"o","u","t","s","o","l","e">>>>, <<<<"3">>, <<"f","r","o","n","t">>>>, <<<<"4">>, <<"b","a","c","k">>>>,
      <<<<"5">>, <<"i","n","s","t","e","p","_","p","r","o","f","i","l","e">>>>, <<<<"6">>, <<"b","i","r","d","s","e","y","e">>>>,
      <<<<"8">>, <<"p","r","o","f","i","l","e">>>>, <<<<"9">>, <<"l","i","f","e","s","t","y","l","e">>>> }

C2_Expected(token) ==
    IF \E e \in C2_CodeLabels : e[1] = token
    THEN (CHOOSE e \in C2_CodeLabels : e[1] = token)[2]
    ELSE token

\* C2: the view token (after prefix and size-suffix stripping and the
\* empty-to-main fallback) is replaced by its label iff it is one of the codes
\* 2,3,4,5,6,8,9; any other token is in the key unchanged; and
\* default/ABC123_9_regular.jpg with a failed probe gives default_lifestyle.
C2_LabelIffCode ==
    Returned =>
        /\ call.result = keyOf(baseFolder(call.imagePath),
                               C2_Expected(viewToken(call.productId, call.imagePath)),
                               call.metadata)
        /\ (/\ call.productId = <<"A","B","C","1","2","3">>
            /\ call.imagePath = <<"d","e","f","a","u","l","t","/","A","B","C","1","2","3","_","9","_","r","e","g","u","l","a","r",".","j","p","g">>
            /\ ~call.metadata.ok) => call.result = <<"d","e","f","a","u","l","t","_","l","i","f","e","s","t","y","l","e">>

\* the bucket a key starts with
bucketOfKey(key) == { b \in Buckets : startsWith(key, b \o <<"_">>) }

C3_BucketFromFolder ==
    /\ bucketOfKey(call.result) =
         { IF toLowerCase(call.parts.folder.parent) \in { <<"g","r","a","y">>, <<"w","h","i","t","e">> }
           THEN toLowerCase(call.parts.folder.parent)
           ELSE <<"d","e","f","a","u","l","t">> }
    /\ (/\ call.parts.token = <<>>
        /\ call.parts.prefix \in { call.productId, call.productId \o <<"_">> })
       => call.result = keyOf(CHOOSE b \in bucketOfKey(call.result) : TRUE, <<"m","a","i","n">>, call.metadata)

C3_ScenarioC ==
    /\ call.productId = <<"A","B","C","1","2","3">>
    /\ call.imagePath = <<"s","p","i","n","s","/","A","B","C","1","2","3","_","t","h","u","m","b","n","a","i","l",".","j","p","g">>

\* C3 as stated: the bucket is gray or white exactly when the lower-cased
\* parent folder is gray or white and default otherwise, an empty token
\* becomes main, and spins/ABC123_thumbnail.jpg for ABC123 gives default_main.
C3_ScenarioC_DefaultMain ==
    Returned => /\ C3_BucketFromFolder
                /\ C3_ScenarioC => call.result = <<"d","e","f","a","u","l","t","_","m","a","i","n">>

\* C3 amended: as stated, but spins/ABC123_thumbnail.jpg gives default_main
\* when the dimension probe fails and default_main_{w}x{h} when it reports wxh.
C3_ScenarioC_DefaultMainByProbe ==
    Returned => /\ C3_BucketFromFolder
                /\ (C3_ScenarioC /\ ~call.metadata.ok) => call.result = <<"d","e","f","a","u","l","t","_","m","a","i","n">>
                /\ (C3_ScenarioC /\ call.metadata.ok) =>
                       call.result = <<"d","e","f","a","u","l","t","_","m","a","i","n","_">> \o imageDimensions(call.metadata)

C3_Witness == Returned /\ C3_ScenarioC /\ ~call.metadata.ok

\* C4: every key is {bucket}_{view} or {bucket}_{view}_{w}x{h} with bucket
\* default, gray or white, has no hyphen and no upper-case letter, and is a
\* function of (bucket, semantic view, dimensions) alone.
C4_KeyForm ==
    Returned =>
        /\ \E b \in Buckets :
              /\ startsWith(call.result, b \o <<"_">>)
              /\ Len(call.result) > Len(b) + 1
        /\ call.metadata.ok => endsWith(call.result, <<"_">> \o imageDimensions(call.metadata))
        /\ \A i \in 1..Len(call.result) :
              /\ call.result[i] # "-"
              /\ call.result[i] \notin upperCharSet
        /\ call.result = keyOf(baseFolder(call.imagePath),
                               semanticView(call.productId, call.imagePath),
                               call.metadata)

(***************************************************************************)
(* Inventory row claims (checked under SpecSort)                            *)
(***************************************************************************)
\* the ViewKey inside `${productId}_${view}.jpg`
viewOfFilename(productId, filename) ==
    sliceOffEnd(sliceFrom(filename, Len(productId) + 1), Len(<<".","j","p","g">>))

viewsOfFilenames(productId, filenames) ==
    [i \in 1..Len(filenames) |-> viewOfFilename(productId, filenames[i])]

elements(list) == { list[i] : i \in 1..Len(list) }

\* the preference tables as C7 states them
C7_NonGrayTable ==
    << <<"m","a","i","n">>, <<"l","i","f","e","s","t","y","l","e">>, <<"o","u","t","s","o","l","e">>, <<"p","r","o","f","i","l","e">>, <<"f","r","o","n","t">>, <<"b","a","c","k">>,
       <<"i","n","s","t","e","p","_","p","r","o","f","i","l","e">>, <<"b","i","r","d","s","e","y","e">> >>

C7_GrayTable ==
    << <<"p","r","o","f","i","l","e">>, <<"l","i","f","e","s","t","y","l","e">>, <<"m","a","i","n">>, <<"i","n","s","t","e","p","_","p","r","o","f","i","l","e">>, <<"d","o","u","b","l","e","h","e","e","l">>,
       <<"d","o","u","b","l","e","q","u","a","r","t","e","r">>, <<"o","u","t","s","o","l","e">> >>

C7_Known(table, view) == \E k \in 1..Len(table) : table[k] = sortToken(view)

C7_Position(table, view) == CHOOSE k \in 1..Len(table) : table[k] = sortToken(view)

C7_Ordered(table, list) ==
    \A i, j \in 1..Len(list) : i < j =>
        /\ (C7_Known(table, list[i]) /\ C7_Known(table, list[j]))
              => C7_Position(table, list[i]) <= C7_Position(table, list[j])
        /\ C7_Known(table, list[j]) => C7_Known(table, list[i])
        /\ (~C7_Known(table, list[i]) /\ ~C7_Known(table, list[j]))
              => localeCompare(list[i], list[j]) <= 0

positionIn(list, x) == CHOOSE k \in 1..Len(list) : list[k] = x

reverse(list) == [i \in 1..Len(list) |-> list[Len(list) + 1 - i]]

C8_Idempotent == call.grayAgain = call.gray /\ call.nonGrayAgain = call.nonGray

C8_Tie(order, a, b) == compareViews(order, a, b) = 0

C8_HasTie(order, list) ==
    \E i, j \in 1..Len(list) : i # j /\ C8_Tie(order, list[i], list[j])

\* C8 as stated: re-sorting changes nothing, and the comparator reports a tie
\* only for two entries with unknown tokens and equal full keys.
C8_TieOnlyUnknownEqual ==
    call.state = "resorted" =>
        /\ C8_Idempotent
        /\ \A i, j \in 1..Len(call.nonGray) :
              (i # j /\ C8_Tie(defaultPreferredOrder, call.nonGray[i], call.nonGray[j])) =>
                  /\ indexOf(defaultPreferredOrder, sortToken(call.nonGray[i])) = -1
                  /\ indexOf(defaultPreferredOrder, sortToken(call.nonGray[j])) = -1
                  /\ call.nonGray[i] = call.nonGray[j]
        /\ \A i, j \in 1..Len(call.gray) :
              (i # j /\ C8_Tie(grayPreferredOrder, call.gray[i], call.gray[j])) =>
                  /\ indexOf(grayPreferredOrder, sortToken(call.gray[i])) = -1
                  /\ indexOf(grayPreferredOrder, sortToken(call.gray[j])) = -1
                  /\ call.gray[i] = call.gray[j]

C8_StableList(order, input, list) ==
    /\ \A i, j \in 1..Len(list) : i # j =>
          (C8_Tie(order, list[i], list[j]) <=>
              \/ /\ indexOf(order, sortToken(list[i])) # -1
                 /\ indexOf(order, sortToken(list[i])) = indexOf(order, sortToken(list[j]))
              \/ /\ indexOf(order, sortToken(list[i])) = -1
                 /\ indexOf(order, sortToken(list[j])) = -1
                 /\ list[i] = list[j])
    /\ \A i, j \in 1..Len(list) : i < j =>
          /\ compareViews(order, list[i], list[j]) <= 0
          /\ C8_Tie(order, list[i], list[j]) => positionIn(input, list[i]) < positionIn(input, list[j])
    /\ ~C8_HasTie(order, list) => sortViews(order, reverse(input)) = list

\* C8 amended: re-sorting changes nothing; the comparator reports a tie
\* exactly when both entries have the same known token, or both have unknown
\* tokens and equal full keys; tied entries keep their insertion order, and
\* entries that do not tie are ordered by the comparator whatever the
\* insertion order.
C8_StableSort ==
    call.state = "resorted" =>
        /\ C8_Idempotent
        /\ C8_StableList(defaultPreferredOrder, nonGrayViews(call.viewKeys), call.nonGray)
        /\ C8_StableList(grayPreferredOrder, grayViews(call.viewKeys), call.gray)

C8_Witness ==
    /\ call.state = "resorted"
    /\ C8_HasTie(defaultPreferredOrder, call.nonGray)
    /\ call.nonGray # nonGrayViews(call.viewKeys)

(***************************************************************************)
(* Pipeline claims (checked under Spec)                                     *)
(***************************************************************************)
\* product k has been through processProductViews
Processed(k) ==
    /\ pc \in { "views", "export", "copy", "matrixify", "done", "crashed" }
    /\ k \in 1..Len(productImagesAvailable)
    /\ pc = "views" => k < productIndex

Exported == pc \in { "copy", "matrixify", "done" }

Copied == pc \in { "matrixify", "done" }

\* extractImageView on the products, paths and probe outcomes of the runs
classified ==
    [productId \in { <<"A","1">>, <<"B","2">>, <<"X","9">> } |->
        [imagePath \in allImages |->
            [metadata \in PipelineProbeOutcomes |->
                extractImageView(productId, imagePath, metadata)]]]

\* the key image i of product k was classified to
keyAt(k, i) ==
    classified[productImagesAvailable[k].productId][productImagesAvailable[k].images[i]]
              [probeLog[k][i]]

\* the candidate image paths the catalog gave for product k
candidatePathsOf(k) ==
    LET e == CHOOSE n \in 1..Len(xmlData) :
                /\ xmlData[n].productId = productImagesAvailable[k].productId
                /\ xmlData[n].xmlFileName = productImagesAvailable[k].xmlFileName
    IN  xmlData[e].images

writtenRows == inventoryFiles[inventoryFileName(activeCatalogBase)]

rowFilenames(row) == row.nonGray \o row.gray

occurrences(list, x) == Cardinality({ i \in 1..Len(list) : list[i] = x })

copyFailed(filename) ==
    \E i \in 1..Len(log) : log[i] = warning("Failed to copy", filename)

\* the key is in the row of product k and its file is in the output, as far
\* as the run has come
keyDelivered(k, key, path) ==
    LET filename == outputFilename(productImagesAvailable[k].productId, key)
    IN  /\ Exported => occurrences(rowFilenames(writtenRows[k]), filename) = 1
        /\ Copied => IF copyFailed(filename)
                     THEN filename \notin DOMAIN outputFiles
                     ELSE /\ filename \in DOMAIN outputFiles
                          /\ outputFiles[filename] = path

\* C5: after processProductViews has processed a product, the keys of its
\* views are unique, each key maps to the last path of the resolved image
\* sequence that classified to it, there are at most as many views as
\* candidate paths, every mapped path is a candidate path, and the inventory
\* row and the copied output hold exactly one file for each key (none in the
\* output only if that copy failed)
C5_ViewsLastWriteWins ==
    \A k \in 1..Len(productImagesAvailable) :
        Processed(k) =>
            LET product == productImagesAvailable[k]
                v == product.views
            IN  /\ \A i, j \in 1..Len(v) : v[i].key = v[j].key => i = j
                /\ elements(mapKeys(v)) = { keyAt(k, i) : i \in 1..Len(product.images) }
                /\ \A i \in 1..Len(v) :
                      \E n \in 1..Len(product.images) :
                          /\ keyAt(k, n) = v[i].key
                          /\ \A m \in 1..Len(product.images) : keyAt(k, m) = v[i].key => m <= n
                          /\ v[i].path = product.images[n]
                /\ Len(v) <= Len(candidatePathsOf(k))
                /\ \A i \in 1..Len(v) : v[i].path \in elements(candidatePathsOf(k))
                /\ Exported => Len(rowFilenames(writtenRows[k])) = Len(v)
                /\ \A i \in 1..Len(v) : keyDelivered(k, v[i].key, v[i].path)

\* two images of one product collided on a key and the run came to its end
C5_Witness ==
    /\ Copied
    /\ \E k \in 1..Len(productImagesAvailable) :
          LET product == productImagesAvailable[k]
          IN  /\ Len(product.images) = 2
              /\ product.images[1] # product.images[2]
              /\ keyAt(k, 1) = keyAt(k, 2)
              /\ Len(product.views) = 1
              /\ product.views[1].path = product.images[2]
              /\ outputFilename(product.productId, keyAt(k, 1)) \in DOMAIN outputFiles

probeFailed(k, i) == ~probeLog[k][i].ok

SucceededProbes == { m \in PipelineProbeOutcomes : m.ok }

\* the key of image j of product k when the probes return what probes says
keyWith(k, probes, j) ==
    classified[productImagesAvailable[k].productId][productImagesAvailable[k].images[j]]
              [probes[j]]

\* image j of product k is in the map under its own key: the key maps to its
\* path and no later image of the product was classified to that key
underOwnKey(map, k, probes, j) ==
    /\ mapHas(map, keyWith(k, probes, j))
    /\ mapGet(map, keyWith(k, probes, j)) = productImagesAvailable[k].images[j]
    /\ \A n \in (j + 1)..Len(productImagesAvailable[k].images) :
          keyWith(k, probes, n) # keyWith(k, probes, j)

\* the views product k would have had if the probe of image i had returned m
viewsHadProbeReturned(k, i, m) ==
    viewsOf(productImagesAvailable[k].productId, productImagesAvailable[k].images,
            [probeLog[k] EXCEPT ![i] = m])

\* every job of the copy loop that did not throw left its file
C6_CopyGoesOn ==
    Copied =>
        \A n \in 1..Len(copyJobs(productImagesAvailable)) :
            LET job == copyJobs(productImagesAvailable)[n]
            IN  ~copyFailed(job.filename) =>
                    /\ job.filename \in DOMAIN outputFiles
                    /\ outputFiles[job.filename] = job.source

\* the failed probe of image i still gave a key: that of a successful probe
\* without its dimension suffix
C6_KeyWithoutSuffix(k, i) ==
    /\ mapHas(productImagesAvailable[k].views, keyAt(k, i))
    /\ \A m \in SucceededProbes :
          stripDimensionSuffix(keyWith(k, [probeLog[k] EXCEPT ![i] = m], i)) = keyAt(k, i)

\* C6 as stated: a failed probe of one image leaves every other image of the
\* product where it would have been had the probe succeeded (under its own
\* key in views, in the row, in the output), and a failed copy leaves every
\* other product/view pair copied
C6_FailureNeverAffectsSiblings ==
    /\ C6_CopyGoesOn
    /\ \A k \in 1..Len(productImagesAvailable) :
          Processed(k) =>
              \A i \in 1..Len(productImagesAvailable[k].images) :
                  probeFailed(k, i) =>
                      /\ C6_KeyWithoutSuffix(k, i)
                      /\ \A j \in 1..Len(productImagesAvailable[k].images) \ {i} :
                            \A m \in SucceededProbes :
                                underOwnKey(viewsHadProbeReturned(k, i, m), k,
                                            [probeLog[k] EXCEPT ![i] = m], j) =>
                                    /\ underOwnKey(productImagesAvailable[k].views, k, probeLog[k], j)
                                    /\ keyDelivered(k, keyAt(k, j),
                                                    productImagesAvailable[k].images[j])

\* C6, amended: the same for every other image whose key is not the failed
\* image's key without suffix; two images with that same key follow the
\* last-write-wins rule
C6_FailureAffectsOnlySameKey ==
    /\ C6_CopyGoesOn
    /\ \A k \in 1..Len(productImagesAvailable) :
          Processed(k) =>
              \A i \in 1..Len(productImagesAvailable[k].images) :
                  probeFailed(k, i) =>
                      /\ C6_KeyWithoutSuffix(k, i)
                      /\ \A j \in 1..Len(productImagesAvailable[k].images) \ {i} :
                            keyAt(k, j) # keyAt(k, i) =>
                                \A m \in SucceededProbes :
                                    underOwnKey(viewsHadProbeReturned(k, i, m), k,
                                            [probeLog[k] EXCEPT ![i] = m], j) =>
                                        /\ underOwnKey(productImagesAvailable[k].views, k, probeLog[k], j)
                                        /\ keyDelivered(k, keyAt(k, j),
                                                        productImagesAvailable[k].images[j])

\* a product with one failed probe and a sibling under its own key, one copy
\* that failed and another file that was copied
C6_Witness ==
    /\ Copied
    /\ \E n \in 1..Len(copyJobs(productImagesAvailable)) :
          copyFailed(copyJobs(productImagesAvailable)[n].filename)
    /\ \E k \in 1..Len(productImagesAvailable) :
          /\ Len(productImagesAvailable[k].images) = 2
          /\ \E i, j \in 1..2 :
                /\ i # j
                /\ probeFailed(k, i)
                /\ keyAt(k, j) # keyAt(k, i)
                /\ underOwnKey(productImagesAvailable[k].views, k, probeLog[k], j)
                /\ outputFilename(productImagesAvailable[k].productId, keyAt(k, j))
                      \in DOMAIN outputFiles

existsInStore(imagePath) == imagePath \in disk.images

hasResolvedImage(entry) == SelectSeq(entry.images, existsInStore) # <<>>

productIdsOf(list) == [k \in 1..Len(list) |-> list[k].productId]

hasClassifiedView(product) == Len(product.views) >= 1

\* C9: the inventory CSV has one data row per resolved product with at least
\* one classified view, and a catalog product none of whose candidate paths
\* exists in the image store has no row and no copied file
C9_RowPerResolvedProduct ==
    Exported =>
        /\ Len(writtenRows) = Len(SelectSeq(productImagesAvailable, hasClassifiedView))
        /\ productIdsOf(writtenRows) = productIdsOf(SelectSeq(xmlData, hasResolvedImage))
        /\ \A e \in 1..Len(xmlData) :
              ~hasResolvedImage(xmlData[e]) =>
                  /\ \A r \in 1..Len(writtenRows) :
                        writtenRows[r].productId # xmlData[e].productId
                  /\ \A filename \in DOMAIN outputFiles :
                        ~startsWith(filename, xmlData[e].productId \o <<"_">>)

\* a run that wrote a row for one product and none for an unresolved one
C9_Witness ==
    /\ Copied
    /\ Len(writtenRows) >= 1
    /\ outputFiles # <<>>
    /\ \E e \in 1..Len(xmlData) : ~hasResolvedImage(xmlData[e])

\* the catalog files that contributed resolved products
contributingCatalogs == { productImagesAvailable[k].xmlFileName :
                              k \in 1..Len(productImagesAvailable) }

isOfCatalog(product, f) == product.xmlFileName = f

productsOfCatalog(f) ==
    LET ofThis(product) == isOfCatalog(product, f)
    IN  SelectSeq(productImagesAvailable, ofThis)

skippedCatalogBases ==
    { catalogBaseName(xmlFiles(disk.catalogFiles)[n].name) :
        n \in { m \in 1..Len(xmlFiles(disk.catalogFiles)) :
                  catalogBaseName(xmlFiles(disk.catalogFiles)[m].name) \notin DOMAIN stylesMap } }

\* C10: after the export every catalog that contributed resolved products
\* has its own inventory file with exactly the rows of its own products, and
\* the base name used for file names is not that of a skipped catalog
C10_GroupedByCatalog ==
    Exported =>
        /\ \A f \in contributingCatalogs :
              /\ inventoryFileName(catalogBaseName(f)) \in DOMAIN inventoryFiles
              /\ productIdsOf(inventoryFiles[inventoryFileName(catalogBaseName(f))])
                    = productIdsOf(productsOfCatalog(f))
        /\ activeCatalogBase \notin skippedCatalogBases

\* C11: every file of the output directory is `{productId}_{viewKey}.jpg` for
\* a key of the product's views and is a copy of the path stored under that
\* key, which is an image the classifier derived that key from; two distinct
\* views of one product are never copies of the same source file
C11_CopiedFromOwnSource ==
    Copied =>
        /\ \A filename \in DOMAIN outputFiles :
              \E k \in 1..Len(productImagesAvailable) :
                  \E i \in 1..Len(productImagesAvailable[k].views) :
                      filename = outputFilename(productImagesAvailable[k].productId,
                                                productImagesAvailable[k].views[i].key)
        /\ \A k \in 1..Len(productImagesAvailable) :
              LET product == productImagesAvailable[k]
                  fileOf(i) == outputFilename(product.productId, product.views[i].key)
              IN  /\ \A i \in 1..Len(product.views) :
                        fileOf(i) \in DOMAIN outputFiles =>
                            /\ outputFiles[fileOf(i)] = product.views[i].path
                            /\ \E n \in 1..Len(product.images) :
                                  /\ product.images[n] = outputFiles[fileOf(i)]
                                  /\ keyAt(k, n) = product.views[i].key
                  /\ \A i, j \in 1..Len(product.views) :
                        /\ i # j
                        /\ fileOf(i) \in DOMAIN outputFiles
                        /\ fileOf(j) \in DOMAIN outputFiles
                        => outputFiles[fileOf(i)] # outputFiles[fileOf(j)]

\* a product with two views, both copied, the first view not from the first
\* resolved image alone
C11_Witness ==
    /\ Copied
    /\ \E k \in 1..Len(productImagesAvailable) :
          LET product == productImagesAvailable[k]
          IN  /\ Len(product.views) = 2
              /\ \A i \in 1..2 :
                    outputFilename(product.productId, product.views[i].key)
                        \in DOMAIN outputFiles

(***************************************************************************)
(* Manifest claims (checked under Spec)                                     *)
(***************************************************************************)
ManifestWritten == pc = "done" /\ matrixifyFileName(activeCatalogBase) \in DOMAIN matrixifyFiles

writtenManifest == matrixifyFiles[matrixifyFileName(activeCatalogBase)]

\* the manifest rows C12 expects for a list of filenames, without the
\* columns re-derived from the filename
C12_RowsOfList(filenames, id) ==
    [n \in 1..Len(filenames) |-> [id |-> id, imageSrc |-> filenames[n], position |-> n]]

RECURSIVE C12_Expected(_)
C12_Expected(rows) ==
    IF rows = <<>> THEN <<>>
    ELSE (IF Head(rows).productId \in DOMAIN styleMap
          THEN C12_RowsOfList(IF Head(rows).gray # <<>> THEN Head(rows).gray
                              ELSE Head(rows).nonGray,
                              styleMap[Head(rows).productId].id)
          ELSE <<>>)
         \o C12_Expected(Tail(rows))

\* C12: the manifest holds, for each inventory row whose style is in the
\* style map and in row order, one row per filename of the gray list when it
\* is non-empty and of the non-gray list otherwise, in list order, at
\* positions 1, 2, ..., n; a row whose style is not in the map gives none
C12_ManifestFromPreferredList ==
    ManifestWritten =>
        [n \in 1..Len(writtenManifest) |->
            [id |-> writtenManifest[n].id, imageSrc |-> writtenManifest[n].imageSrc,
             position |-> writtenManifest[n].position]]
        = C12_Expected(writtenRows)

\* a manifest from a row with both lists and a row whose style is not in the
\* map
C12_Witness ==
    /\ ManifestWritten
    /\ \E r \in 1..Len(writtenRows) :
          /\ writtenRows[r].productId \in DOMAIN styleMap
          /\ writtenRows[r].gray # <<>>
          /\ writtenRows[r].nonGray # <<>>
    /\ \E r \in 1..Len(writtenRows) : writtenRows[r].productId \notin DOMAIN styleMap
    /\ Len(writtenManifest) >= 1

\* the product and the image a filename of the manifest comes from
C13_Origins(filename) ==
    { o \in { <<k, n>> : k \in 1..Len(productImagesAvailable), n \in 1..MaxImages + 1 } :
        /\ o[2] <= Len(productImagesAvailable[o[1]].images)
        /\ filename = outputFilename(productImagesAvailable[o[1]].productId, keyAt(o[1], o[2])) }

C13_AltText(title, view) ==
    IF view = <<"d","e","f","a","u","l","t">> THEN title ELSE title \o <<" ","-"," ">> \o view

\* C13: a manifest row built from `{productId}_{viewKey}.jpg` has the width
\* and height the probe gave for the ViewKey (both empty when it has no
\* dimension suffix), and its alt text is made from the semantic view token
\* of the ViewKey
C13_RoundTrip ==
    ManifestWritten =>
        \A n \in 1..Len(writtenManifest) :
            \A o \in C13_Origins(writtenManifest[n].imageSrc) :
                LET metadata == probeLog[o[1]][o[2]]
                    productId == productImagesAvailable[o[1]].productId
                    token == stripDimensionSuffix(stripBucketPrefix(keyAt(o[1], o[2])))
                IN  /\ writtenManifest[n].width =
                          IF metadata.ok THEN numberToString(metadata.width) ELSE <<>>
                    /\ writtenManifest[n].height =
                          IF metadata.ok THEN numberToString(metadata.height) ELSE <<>>
                    /\ writtenManifest[n].altText =
                          C13_AltText(trim(styleMap[productId].title), token)

\* the style of the inventory row a manifest row comes from
C14_StyleOf(n) ==
    CHOOSE style \in DOMAIN styleMap :
        /\ styleMap[style].id = writtenManifest[n].id
        /\ startsWith(writtenManifest[n].imageSrc, style \o <<"_">>)

\* C14 as stated: the Style column holds the product's style on the second
\* row of the product and is empty on every other row
C14_StyleOnSecondRow ==
    ManifestWritten =>
        \A n \in 1..Len(writtenManifest) :
            writtenManifest[n].style =
                IF writtenManifest[n].position = 2 THEN C14_StyleOf(n) ELSE <<>>

\* C14, amended: the Style column holds the product's style on the first row
\* of the product and is empty on every other row
C14_StyleOnFirstRow ==
    ManifestWritten =>
        \A n \in 1..Len(writtenManifest) :
            writtenManifest[n].style =
                IF writtenManifest[n].position = 1 THEN C14_StyleOf(n) ELSE <<>>

\* a product with two manifest rows
C14_Witness ==
    /\ ManifestWritten
    /\ \E n \in 1..Len(writtenManifest) :
          /\ writtenManifest[n].position = 2
          /\ writtenManifest[n].style = <<>>
          /\ writtenManifest[n - 1].style = C14_StyleOf(n)

(***************************************************************************)
(* Catalog skip, stage failures and ordering (checked under Spec)           *)
(***************************************************************************)
CatalogsParsed == pc \notin { "setup", "styles", "parse" }

\* the allow-list file `{catalogBase}_styles.txt` of a catalog file, if any
C15_AllowListsOf(f) ==
    { i \in 1..Len(disk.stylesFiles) :
        disk.stylesFiles[i].name = catalogBaseName(f.name) \o <<"_","s","t","y","l","e","s",".","t","x","t">> }

C15_CatalogFiles == elements(xmlFiles(disk.catalogFiles))

C15_Skipped == { f \in C15_CatalogFiles : C15_AllowListsOf(f) = {} }

C15_AllowedIds(f) ==
    UNION { { trim(disk.stylesFiles[i].lines[n]) : n \in 1..Len(disk.stylesFiles[i].lines) } :
              i \in C15_AllowListsOf(f) }

C15_NowhereInOutput(productId) ==
    /\ \A name \in DOMAIN inventoryFiles :
          \A r \in 1..Len(inventoryFiles[name]) : inventoryFiles[name][r].productId # productId
    /\ \A filename \in DOMAIN outputFiles : ~startsWith(filename, productId \o <<"_">>)
    /\ \A name \in DOMAIN matrixifyFiles :
          \A r \in 1..Len(matrixifyFiles[name]) :
              ~startsWith(matrixifyFiles[name][r].imageSrc, productId \o <<"_">>)

\* C15: a catalog file without allow-list has no product in xmlData, in the
\* resolved products or in any output, and a warning names it; every other
\* catalog has all its allow-listed products with images in xmlData
C15_SkippedCatalogContributesNothing ==
    CatalogsParsed =>
        /\ \A f \in C15_Skipped :
              /\ \A e \in 1..Len(xmlData) : xmlData[e].xmlFileName # f.name
              /\ \A k \in 1..Len(productImagesAvailable) :
                    productImagesAvailable[k].xmlFileName # f.name
              /\ \A p \in 1..Len(f.products) : C15_NowhereInOutput(f.products[p].productId)
              /\ \E n \in 1..Len(log) :
                    log[n].level = "WARN" /\ log[n].subject = f.name
        /\ \A f \in C15_CatalogFiles \ C15_Skipped :
              \A p \in 1..Len(f.products) :
                  (/\ f.products[p].productId \in C15_AllowedIds(f)
                   /\ \E i \in 1..Len(f.products[p].images) :
                         f.products[p].images[i].viewType \in { "hi-res", "grid-large" })
                  => \E e \in 1..Len(xmlData) :
                        /\ xmlData[e].productId = f.products[p].productId
                        /\ xmlData[e].xmlFileName = f.name

\* a run to its end in which the catalog enumerated first was skipped and a
\* later one gave a product that reached the manifest
C15_Witness ==
    /\ ManifestWritten
    /\ Len(xmlFiles(disk.catalogFiles)) = 2
    /\ xmlFiles(disk.catalogFiles)[1] \in C15_Skipped
    /\ Len(productImagesAvailable) >= 1
    /\ Len(writtenManifest) >= 1

\* the directory of the inventory file or the style map CSV is missing
C16_ExportInputMissing == pc = "export" /\ ~disk.inventoryDir

C16_LoggedError == \E n \in 1..Len(log') : log'[n].level = "ERROR" /\ n > Len(log)

\* C16: a missing input of a stage is logged as an error and prevents only
\* the output of that stage, no exception escapes and the later stages run to
\* their end; a missing top-level directory ends the process before any
\* catalog is read
C16_MissingInputIsLocal ==
    /\ [](pc # "crashed")
    /\ [][ /\ C16_ExportInputMissing
              => C16_LoggedError /\ inventoryFiles' = inventoryFiles /\ pc' = "copy"
           /\ pc = "copy" => pc' = "matrixify"
           /\ pc = "matrixify" => pc' = "done"
           /\ pc = "matrixify" /\ matrixifyFiles' = matrixifyFiles => C16_LoggedError
           /\ pc = "setup" /\ disk.dirs # topLevelDirs => pc' = "exited" ]_vars

\* every resolved product has its complete views mapping
C17_ViewsComplete ==
    \A k \in 1..Len(productImagesAvailable) :
        /\ Len(probeLog[k]) = Len(productImagesAvailable[k].images)
        /\ elements(mapKeys(productImagesAvailable[k].views))
              = { keyAt(k, i) : i \in 1..Len(productImagesAvailable[k].images) }

\* the probe that settles in a step is the next one in product order and, in
\* the product, in resolved-image order
C17_NextProbeInOrder ==
    /\ outstandingProbes = { <<productIndex, imageIndex>> }
    /\ imageIndex = Len(probeLog[productIndex]) + 1
    /\ \E metadata \in PipelineProbeOutcomes :
          probeLog' = [probeLog EXCEPT ![productIndex] = Append(@, metadata)]
    /\ \A k \in 1..Len(productImagesAvailable) :
          /\ k < productIndex => Len(probeLog[k]) = Len(productImagesAvailable[k].images)
          /\ k > productIndex => probeLog[k] = <<>>

\* C17: at most one probe is outstanding, probes settle in product order and
\* resolved-image order, the export starts only when every resolved product
\* has its complete views, the copy only after the export wrote the
\* inventory file, the manifest only after the copy, and the manifest reads
\* an inventory file with the rows of all resolved products
C17_SequentialStages ==
    /\ [](Cardinality(outstandingProbes) <= 1)
    /\ [](pc \in { "export", "copy", "matrixify", "done", "crashed" } => C17_ViewsComplete)
    /\ [](pc \in { "matrixify", "done" } =>
            /\ inventoryFileName(activeCatalogBase) \in DOMAIN inventoryFiles
            /\ productIdsOf(writtenRows) = productIdsOf(productImagesAvailable))
    /\ [][ /\ pc = "views" /\ probeLog' # probeLog => C17_NextProbeInOrder
           /\ pc' = "export" /\ pc # "export" => pc = "views" /\ outstandingProbes = {}
           /\ pc' = "copy" /\ pc # "copy" =>
                 pc = "export" /\ inventoryFileName(activeCatalogBase) \in DOMAIN inventoryFiles'
           /\ pc' = "matrixify" /\ pc # "matrixify" => pc = "copy"
           /\ matrixifyFiles' # matrixifyFiles => pc = "matrixify"
           /\ outputFiles' # outputFiles => pc = "copy"
           /\ inventoryFiles' # inventoryFiles => pc = "export" ]_vars

\* a run to its end with two products, one of them with two images
C17_Witness ==
    /\ ManifestWritten
    /\ Len(productImagesAvailable) = 2
    /\ \E k \in 1..2 : Len(probeLog[k]) = 2
    /\ outputFiles # <<>>

====
